---- MODULE Spec2Model ----
(***************************************************************************)
(* A model of the quiz-chain solver of src/main.py: the /solve entrypoint, *)
(* the chain driver solve_quiz_chain, one quiz step solve_single_quiz, the *)
(* page analyzer analyze_quiz_page, the answer resolver solve_question and *)
(* the two retry loops fetch_page_with_playwright and submit_answer.       *)
(*                                                                         *)
(* Texts are finite sequences of lexemes (short strings).  The lexeme      *)
(* alphabets are chosen so that every literal and every character class of *)
(* the program's regular expressions begins and ends on a lexeme boundary: *)
(* a pattern then matches a run of characters exactly when its lexeme form *)
(* matches the run of lexemes.  The patterns are evaluated by a            *)
(* backtracking matcher with Python's preference order (leftmost start,    *)
(* alternatives in order, greedy repetition).                              *)
(***************************************************************************)
EXTENDS Integers, Sequences, FiniteSets, TLC

\* ------------------------------------------------------------------ bounds

\* Longest page text body (in lexemes) the analyzer is run on.
MaxLen == 4

\* Most POST /solve requests the service receives.
MaxRequests == 2

\* Most rows of an enumerated CSV column.
MaxRows == 3

\* ---------------------------------------------------------------- lexemes

\* \s of the patterns: the whitespace lexeme.
Space == {" "}

\* The characters [^\s<>"] excludes (main.py:152,154,183,193).
UrlStop == {" ", "<", ">", "\""}

\* Lexemes of the analyzer's page texts and of the model's replies.
AnalyzerLex == {"POST", " ", "to", "JSON", "https://", "http://", "host", "/submit", "?id=1",
                "lm.example", "none"}

\* Lexemes of the resolver's question, page, markup and scraped texts
\* ("backquote" stands for the one character U+0060).
ResolverLex == {"Scrape", "/secret.html", "secret.html", "secret code is", "abc",
                "48213", "123", "777777", "0", "10", "15", "22", "3.5",
                "href=", "(", ")", "'", "backquote", "/data", "data", ".csv",
                "cutoff", "Cutoff", ":", "of", "yes", "no", "true", "false", "/"}

\* Every lexeme of the model.
Lexemes == AnalyzerLex \cup ResolverLex \cup {"<", ">", "\""}

\* [^\s<>"]
UrlChar == Lexemes \ UrlStop

\* Lexemes every character of which is in the class [https://[^\s<>"] of
\* main.py:152, i.e. one of h t p s : / [ ^ whitespace < > " (the stray
\* "[" before https makes the group a character class, not a literal).
Class152 == {"https://", "http://", " ", "<", ">", "\""}

\* Lexemes that contain the substring "submit" (main.py:194).
HasSubmit == {"/submit"}

\* ----------------------------------------------------- pattern matching

\* One pattern element: a set of lexemes, a minimum count, and whether it
\* repeats greedily.
One(S)  == [set |-> S, min |-> 1, many |-> FALSE]
Plus(S) == [set |-> S, min |-> 1, many |-> TRUE]
Star(S) == [set |-> S, min |-> 0, many |-> TRUE]

RECURSIVE RunLen(_, _, _)
\* How many consecutive lexemes of text, from pos on, are in S.
RunLen(text, pos, S) ==
    IF pos <= Len(text) /\ text[pos] \in S THEN 1 + RunLen(text, pos + 1, S) ELSE 0

RECURSIVE MatchFrom(_, _, _, _)
RECURSIVE TryLen(_, _, _, _, _)
\* re.match of pat[k..] at pos: the boundaries <<start of element k, ...,
\* end of the match>> of the preferred match, or <<>> when there is none.
MatchFrom(pat, k, text, pos) ==
    IF k > Len(pat) THEN <<pos>>
    ELSE LET run == RunLen(text, pos, pat[k].set)
             top == IF pat[k].many THEN run ELSE IF run >= 1 THEN 1 ELSE 0
         IN  TryLen(pat, k, text, pos, top)

\* Greedy repetition with backtracking: try n lexemes, then n-1, ...
TryLen(pat, k, text, pos, n) ==
    IF n < pat[k].min THEN <<>>
    ELSE LET rest == MatchFrom(pat, k + 1, text, pos + n)
         IN  IF rest /= <<>> THEN <<pos>> \o rest
             ELSE TryLen(pat, k, text, pos, n - 1)

RECURSIVE FirstAlt(_, _, _, _)
\* The first alternative of alts (from index a) that matches at pos.
FirstAlt(alts, a, text, pos) ==
    IF a > Len(alts) THEN [alt |-> 0, at |-> <<>>]
    ELSE LET m == MatchFrom(alts[a], 1, text, pos)
         IN  IF m /= <<>> THEN [alt |-> a, at |-> m]
             ELSE FirstAlt(alts, a + 1, text, pos)

RECURSIVE SearchFrom(_, _, _)
\* re.search from pos on: the leftmost start at which an alternative
\* matches; alt = 0 when there is no match.
SearchFrom(alts, text, pos) ==
    IF pos > Len(text) THEN [alt |-> 0, at |-> <<>>]
    ELSE LET m == FirstAlt(alts, 1, text, pos)
         IN  IF m.alt /= 0 THEN m ELSE SearchFrom(alts, text, pos + 1)

\* re.search(pattern, text)
Search(alts, text) == SearchFrom(alts, text, 1)

\* The text of a match from the start of element g to the end of the match.
Group(text, m, g) == SubSeq(text, m.at[g], m.at[Len(m.at)] - 1)

\* The text of a match from the start of element g to the start of element h.
GroupTo(text, m, g, h) == SubSeq(text, m.at[g], m.at[h] - 1)

RECURSIVE FindAllFrom(_, _, _)
\* re.findall(pattern, text): the non-overlapping matches, left to right.
FindAllFrom(alts, text, pos) ==
    LET m == SearchFrom(alts, text, pos)
    IN  IF m.alt = 0 THEN <<>>
        ELSE <<Group(text, m, 1)>> \o FindAllFrom(alts, text, m.at[Len(m.at)])

FindAll(alts, text) == FindAllFrom(alts, text, 1)

\* text[:n]
Take(text, n) == SubSeq(text, 1, IF Len(text) < n THEN Len(text) ELSE n)

\* str.strip(): leading and trailing whitespace removed.
RECURSIVE LStrip(_, _)
LStrip(text, S) == IF text /= <<>> /\ Head(text) \in S THEN LStrip(Tail(text), S) ELSE text

RECURSIVE RStrip(_, _)
RStrip(text, S) ==
    IF text /= <<>> /\ text[Len(text)] \in S THEN RStrip(SubSeq(text, 1, Len(text) - 1), S)
    ELSE text

Strip(text, S) == RStrip(LStrip(text, S), S)

\* ------------------------------------------------------- analyze_quiz_page

\* page_text[:500] keeps 500 characters; a lexeme is at least one character
\* and the model's texts are far shorter, so the prefix is the whole text.
QuestionChars == 500

\* The capture group of main.py:152.
SubmitGroup == <<Plus(Class152), One({"/submit"}), Star(UrlChar)>>

\* POST\s+(?:to\s+)?(?:JSON\s+to\s+)?(...), IGNORECASE: the two optional
\* groups spelled out as ordered alternatives (taken first, skipped second).
Pattern152 ==
    << <<One({"POST"}), Plus(Space), One({"to"}), Plus(Space),
         One({"JSON"}), Plus(Space), One({"to"}), Plus(Space)>> \o SubmitGroup,
       <<One({"POST"}), Plus(Space), One({"to"}), Plus(Space)>> \o SubmitGroup,
       <<One({"POST"}), Plus(Space), One({"JSON"}), Plus(Space),
         One({"to"}), Plus(Space)>> \o SubmitGroup,
       <<One({"POST"}), Plus(Space)>> \o SubmitGroup >>

\* Where group 1 starts in each alternative of Pattern152.
Group152 == <<9, 5, 7, 3>>

\* (https://[^\s<>"]+/submit), IGNORECASE
Pattern154 == << <<One({"https://"}), Plus(UrlChar), One({"/submit"})>> >>

\* https://[^\s<>"]+
PatternUrl == << <<One({"https://"}), Plus(UrlChar)>> >>

\* The hardcoded last resort of main.py:202.
DefaultSubmitUrl == <<"https://", "tds-llm-analysis.s-anand.net", "/submit">>

\* main.py:152-157: the submit URL the two patterns extract, <<>> when
\* neither matches.
DirectSubmitUrl(text) ==
    LET m1 == Search(Pattern152, text)
        m2 == Search(Pattern154, text)
    IN  IF m1.alt /= 0 THEN Group(text, m1, Group152[m1.alt])
        ELSE IF m2.alt /= 0 THEN Group(text, m2, 1)
        ELSE <<>>

\* main.py:179-188: the URL taken from the model's reply, <<>> when the
\* call raised or the reply holds no URL.
GeminiSubmitUrl(lm) ==
    IF lm.raises THEN <<>>
    ELSE LET reply == Strip(lm.text, Space)
             m     == Search(PatternUrl, reply)
         IN  IF m.alt /= 0 THEN Group(reply, m, 1) ELSE <<>>

RECURSIVE FirstWithSubmit(_)
\* next((u for u in urls if 'submit' in u.lower()), None), with None as <<>>
FirstWithSubmit(urls) ==
    IF urls = <<>> THEN <<>>
    ELSE IF \E i \in 1..Len(Head(urls)) : Head(urls)[i] \in HasSubmit THEN Head(urls)
    ELSE FirstWithSubmit(Tail(urls))

\* The fallback without its last resort: None when the text holds no URL.
FallbackSubmitUrlNoDefault(text) ==
    LET urls == FindAll(PatternUrl, text)
        s1   == FirstWithSubmit(urls)
    IN  IF s1 = <<>> /\ urls /= <<>> THEN urls[1] ELSE s1

\* main.py:193-202
FallbackSubmitUrl(text) ==
    LET urls == FindAll(PatternUrl, text)
        s1   == FirstWithSubmit(urls)
        s2   == IF s1 = <<>> /\ urls /= <<>> THEN urls[1] ELSE s1
    IN  IF s2 = <<>> THEN DefaultSubmitUrl ELSE s2

\* analyze_quiz_page(page_text) with the model client behaving as lm: the
\* result, how often the model client was invoked and what it did.
analyze_quiz_page(text, lm) ==
    LET direct   == DirectSubmitUrl(text)
        gemini   == GeminiSubmitUrl(lm)
        question == Take(text, QuestionChars)
    IN  IF direct /= <<>> THEN
            [submit_url |-> direct, question |-> question, lm_calls |-> 0,
             lm_reply |-> [raises |-> FALSE, text |-> <<>>]]
        ELSE IF gemini /= <<>> THEN
            [submit_url |-> gemini, question |-> question, lm_calls |-> 1, lm_reply |-> lm]
        ELSE
            [submit_url |-> FallbackSubmitUrl(text), question |-> question, lm_calls |-> 1,
             lm_reply |-> lm]

\* ----------------------------------------------------------- solve_question

\* Runs of decimal digits, and the numbers int() reads from them.
Digits == {"48213", "123", "777777", "0", "10", "15", "22"}

\* \d{5,}
LongDigits == {"48213", "777777"}

\* int(s) of a digit run
ParseInt(s) ==
    CASE s = "0" -> 0 [] s = "10" -> 10 [] s = "15" -> 15 [] s = "22" -> 22
      [] s = "123" -> 123 [] s = "48213" -> 48213 [] s = "777777" -> 777777

\* Lexemes whose first (last) character is a word character, for \b.
StartsWord == Lexemes \ {" ", "<", ">", "\"", "/submit", "?id=1", "/secret.html", "(", ")",
                         "'", "backquote", "/data", ".csv", ":", "/"}
EndsWord   == Lexemes \ {" ", "<", ">", "\"", "https://", "http://", "href=", "(", ")",
                         "'", "backquote", ":", "/"}

\* Lexemes that begin with "http" (str.startswith('http')), and with "/".
StartsHttp  == {"https://", "http://"}
StartsSlash == {"/submit", "/secret.html", "/data", "/", "/q1", "/q2"}

\* Scrape\s+([^\s]+), IGNORECASE
PatternScrape == << <<One({"Scrape"}), Plus(Space), Plus(Lexemes \ Space)>> >>

\* [Ss]ecret\s+code\s+is\s+(\d+); the label is one lexeme
PatternSecret == << <<One({"secret code is"}), Plus(Space), One(Digits)>> >>

\* https?://[^\s<>"\'()]+\.csv, IGNORECASE
PatternCsvUrl ==
    << <<One(StartsHttp), Plus(Lexemes \ {" ", "<", ">", "\"", "'", "(", ")"}), One({".csv"})>> >>

\* href=["\']([^"\']+\.csv)["\'], IGNORECASE
PatternCsvHref ==
    << <<One({"href="}), One({"\"", "'"}), Plus(Lexemes \ {"\"", "'"}), One({".csv"}),
         One({"\"", "'"})>> >>

\* \(([^\)]+\.csv)\), IGNORECASE
PatternCsvParen == << <<One({"("}), Plus(Lexemes \ {")"}), One({".csv"}), One({")"})>> >>

\* cutoff of (\d+): the pattern of main1.py:119 in place of main.py:272.
PatternCutoffOf ==
    << <<One({"cutoff"}), One(Space), One({"of"}), One(Space), One(Digits)>> >>

\* [Cc]utoff[:\s]+(\d+)
PatternCutoff == << <<One({"cutoff", "Cutoff"}), Plus({":", " "}), One(Digits)>> >>

\* urllib.parse.urljoin(base, ref) for a base <<scheme, host, path, ...>>
\* whose path is one segment at the root: an absolute ref stands, a rooted
\* ref keeps the base's scheme and host, any other ref replaces the base's
\* last segment.  Leading whitespace of ref is dropped.
urljoin(base, ref) ==
    LET r == LStrip(ref, Space)
    IN  IF r = <<>> THEN base
        ELSE IF r[1] \in StartsHttp THEN r
        ELSE IF Len(base) < 2 \/ base[1] \notin StartsHttp THEN r
        ELSE IF r[1] \in StartsSlash THEN <<base[1], base[2]>> \o r
        ELSE <<base[1], base[2], "/">> \o r

\* main.py:216-219: the path of the Scrape instruction, <<>> when the
\* question has none.
ScrapePath(question) ==
    LET m == Search(PatternScrape, question)
    IN  IF m.alt /= 0 THEN Group(question, m, 3) ELSE <<>>

RECURSIVE LongCodeFrom(_, _)
\* \b(\d{5,})\b from position i on: the first run of five or more digits
\* with no word character on either side, <<>> when there is none.
LongCodeFrom(text, i) ==
    IF i > Len(text) THEN <<>>
    ELSE IF /\ text[i] \in LongDigits
            /\ (i = 1 \/ text[i - 1] \notin EndsWord)
            /\ (i = Len(text) \/ text[i + 1] \notin StartsWord)
         THEN <<text[i]>>
    ELSE LongCodeFrom(text, i + 1)

\* An answer value: an integer, a float (kept as written), a boolean (num
\* 1 or 0) or a string (text).
IntAnswer(n)   == [kind |-> "int", num |-> n, text |-> <<>>]
FloatAnswer(t) == [kind |-> "float", num |-> 0, text |-> t]
BoolAnswer(b)  == [kind |-> "bool", num |-> IF b THEN 1 ELSE 0, text |-> <<>>]
StrAnswer(t)   == [kind |-> "str", num |-> 0, text |-> t]

\* The two searches in the other order: any long run of digits first.
ScrapeAnswerLongFirst(scraped_text) ==
    LET m == Search(PatternSecret, scraped_text)
        c == LongCodeFrom(scraped_text, 1)
    IN  IF c /= <<>> THEN StrAnswer(c)
        ELSE IF m.alt /= 0 THEN StrAnswer(Group(scraped_text, m, 3))
        ELSE StrAnswer(Strip(scraped_text, Space))

\* main.py:226-236: the answer of the scrape branch.
ScrapeAnswer(scraped_text) ==
    LET m == Search(PatternSecret, scraped_text)
        c == LongCodeFrom(scraped_text, 1)
    IN  IF m.alt /= 0 THEN StrAnswer(Group(scraped_text, m, 3))
        ELSE IF c /= <<>> THEN StrAnswer(c)
        ELSE StrAnswer(Strip(scraped_text, Space))

\* main.py:239
CombinedContent(page_text, page_html) == page_text \o <<" ">> \o page_html

\* main.py:248-256: the first pattern that matches decides; <<>> is None.
FindCsvUrl(combined) ==
    LET m1 == Search(PatternCsvUrl, combined)
        m2 == Search(PatternCsvHref, combined)
        m3 == Search(PatternCsvParen, combined)
        found == IF m1.alt /= 0 THEN Group(combined, m1, 1)
                 ELSE IF m2.alt /= 0 THEN GroupTo(combined, m2, 3, 5)
                 ELSE IF m3.alt /= 0 THEN GroupTo(combined, m3, 2, 4)
                 ELSE <<>>
    IN  Strip(found, {"\"", "'", "(", ")", "<", ">"})

\* main.py:260-262
AbsoluteCsvUrl(base_url, csv_url) ==
    IF csv_url[1] \in StartsHttp THEN csv_url ELSE urljoin(base_url, csv_url)

\* main.py:272-274: the cutoff, -1 when the text states none.
FindCutoff(combined) ==
    LET m == Search(PatternCutoff, combined)
    IN  IF m.alt /= 0 THEN ParseInt(Group(combined, m, 3)[1]) ELSE -1

\* A data frame is a sequence of columns [numeric, vals]; a value is kept
\* in halves (3 is 1.5, 30 is 15), so that float columns can be told from
\* integer ones.
RECURSIVE FirstNumericFrom(_, _)
\* df.select_dtypes(include=['number']).columns[0], 0 when there is none.
FirstNumericFrom(df, i) ==
    IF i > Len(df) THEN 0
    ELSE IF df[i].numeric THEN i
    ELSE FirstNumericFrom(df, i + 1)

\* df[numeric_col] > cutoff, for one value
Exceeds(v, cutoff) == v > 2 * cutoff

RECURSIVE FilteredSum(_, _)
\* df[df[numeric_col] > cutoff][numeric_col].sum(), in halves
FilteredSum(vals, cutoff) ==
    IF vals = <<>> THEN 0
    ELSE (IF Exceeds(Head(vals), cutoff) THEN Head(vals) ELSE 0) + FilteredSum(Tail(vals), cutoff)

\* int(result): truncation toward zero of a value in halves
IntOf(h) == IF h >= 0 THEN h \div 2 ELSE -((-h) \div 2)

\* main.py:304-331: the typed answer of the model fallback.
GeminiAnswer(lm) ==
    IF lm.raises THEN StrAnswer(<<"error">>)
    ELSE LET t == SelectSeq(Strip(lm.text, Space), LAMBDA x : x \notin {"backquote", "\"", "'"})
         IN  IF Len(t) = 1 /\ t[1] \in {"3.5"} THEN FloatAnswer(t)
             ELSE IF Len(t) = 1 /\ t[1] \in Digits THEN IntAnswer(ParseInt(t[1]))
             ELSE IF t \in {<<"true">>, <<"yes">>} THEN BoolAnswer(TRUE)
             ELSE IF t \in {<<"false">>, <<"no">>} THEN BoolAnswer(FALSE)
             ELSE StrAnswer(t)

\* main.py:239-274: what solve_question reads off the page before and
\* after loading the CSV: the URL handed to the loader (<<>> when none is
\* found and the loader is not called) and the cutoff.
CsvPlan(page_text, page_html, base_url) ==
    LET combined == CombinedContent(page_text, page_html)
        csv_url  == FindCsvUrl(combined)
    IN  [csv_loaded |-> IF csv_url = <<>> THEN <<>> ELSE AbsoluteCsvUrl(base_url, csv_url),
         cutoff |-> FindCutoff(combined)]

\* main.py:258-297: whether the tabular branch returns, given what the
\* loader did.
TabularReturns(plan, csv) ==
    /\ plan.csv_loaded /= <<>>
    /\ ~csv.raises
    /\ plan.cutoff >= 0
    /\ FirstNumericFrom(csv.df, 1) /= 0

\* main.py:238-331: solve_question when the question has no Scrape
\* instruction, with the CSV loader behaving as csv and the model client
\* as lm: the answer, the branch that produced it, the URL handed to the
\* loader, the frame it returned, the cutoff (-1 when none was looked for
\* or found) and how often the model client was invoked.
ResolveWithoutScrape(plan, csv, lm) ==
    LET df == IF plan.csv_loaded = <<>> \/ csv.raises THEN <<>> ELSE csv.df
    IN  IF TabularReturns(plan, csv) THEN
            [answer |-> IntAnswer(IntOf(FilteredSum(df[FirstNumericFrom(df, 1)].vals,
                                                    plan.cutoff))),
             branch |-> "tabular", csv_loaded |-> plan.csv_loaded, df |-> df,
             cutoff |-> plan.cutoff, lm_calls |-> 0]
        ELSE
            [answer |-> GeminiAnswer(lm), branch |-> "gemini", csv_loaded |-> plan.csv_loaded,
             df |-> df, cutoff |-> IF df = <<>> THEN -1 ELSE plan.cutoff, lm_calls |-> 1]

\* ------------------------------------------------------------ submit_answer

\* retries=3 of fetch_page_with_playwright and of submit_answer
fetch_retries == 3
submit_retries == 3

\* main.py:337-338
AbsoluteSubmitUrl(submit_url, quiz_url) ==
    IF submit_url /= <<>> /\ submit_url[1] \in StartsHttp THEN submit_url
    ELSE urljoin(quiz_url, submit_url)

\* What submit_answer returns: a JSON object (kind "dict") with each of its
\* fields correct, reason and url present or absent, a JSON value that is
\* not an object and is falsy (null, [], "", 0: kind "falsy") or truthy
\* (kind "other").
JsonDict(correct, reason, has_url, url) ==
    [kind |-> "dict", correct |-> correct, reason |-> reason, has_url |-> has_url, url |-> url]
JsonOther(kind) ==
    [kind |-> kind, correct |-> "absent", reason |-> "absent", has_url |-> FALSE, url |-> <<>>]

\* main.py:358: {"correct": False, "reason": f"HTTP {response.status_code}"}
HttpFailure == JsonDict("false", "HTTP status", FALSE, <<>>)

\* main.py:364: {"correct": False, "reason": str(e)}
ExhaustedFailure == JsonDict("false", "error text", FALSE, <<>>)

\* ---------------------------------------------------------- solve_quiz_chain

\* max_quizzes
max_quizzes == 10

\* bool(result): an object is truthy unless it has no field at all
Truthy(result) ==
    \/ result.kind = "other"
    \/ result.kind = "dict" /\ ~(result.correct = "absent" /\ result.reason = "absent"
                                   /\ ~result.has_url)

\* result.get('url', <the first quiz>): a default where None is meant.
NextUrlOrDefault(result) ==
    IF result.kind = "dict" /\ result.has_url THEN result.url
    ELSE <<"https://", "host", "/q1">>

\* result.get('url'), None as <<>>
NextUrl(result) == IF result.kind = "dict" /\ result.has_url THEN result.url ELSE <<>>

\* A loop that tests its count with <= runs one step too many.
LoopContinuesOffByOne(url, count) == url /= <<>> /\ count <= max_quizzes

\* main.py:59: the loop condition
LoopContinues(url, count) == url /= <<>> /\ count < max_quizzes

\* A driver that follows the next-hop url only after a right answer.
DriverVerdictStopsOnWrong(result) ==
    IF Truthy(result) /\ result.kind = "dict" THEN
        IF NextUrl(result) /= <<>> /\ result.correct /= "false" THEN "next" ELSE "complete"
    ELSE "invalid"

\* main.py:66-81: what the driver does with the step's result: "next"
\* (follow the next-hop url), "complete" or "invalid".
DriverVerdict(result) ==
    IF Truthy(result) /\ result.kind = "dict" THEN
        IF NextUrl(result) /= <<>> THEN "next" ELSE "complete"
    ELSE "invalid"

\* ------------------------------------------------------------------- state

VARIABLES
    MY_SECRET,      \* the configured shared secret (main.py:17)
    site,           \* which surroundings the program runs in (see Surroundings)
    responses,      \* the /solve requests handled so far, each with its response
    tasks,          \* background tasks scheduled and not yet started
    started,        \* background tasks started, in order
    pc,             \* where the running chain is
    task,           \* the arguments of the running chain
    current_url, quiz_count,
    outcome,        \* how the chain left its loop
    lacked,         \* a step of this chain returned a result without a next-hop url
    single_calls,   \* calls of solve_single_quiz in this chain
    submit_calls,   \* calls of submit_answer in this chain
    page_text, page_html, analysis, solve, answer, result,
    attempt,        \* the attempt index of the running retry loop
    delays,         \* time.sleep(5) calls of the running retry loop
    tries           \* attempts made by the running retry loop

configVars == <<MY_SECRET, site>>
entryVars == <<configVars, responses, tasks, started>>
chainVars == <<pc, task, current_url, quiz_count, outcome, lacked, single_calls, submit_calls>>
stepVars  == <<page_text, page_html, analysis, solve, answer, result, attempt, delays, tries>>
vars      == <<entryVars, chainVars, stepVars>>

NoTask     == [email |-> "", secret |-> "", url |-> <<>>]
NoReply    == [raises |-> FALSE, text |-> <<>>]
NoAnalysis == [submit_url |-> <<>>, question |-> <<>>, lm_calls |-> 0, lm_reply |-> NoReply]
NoSolve    == [branch |-> "none", scrape_url |-> <<>>, scraped_text |-> <<>>,
               csv_loaded |-> <<>>, df |-> <<>>, cutoff |-> -1, lm_calls |-> 0]
NoAnswer   == [kind |-> "none", num |-> 0, text |-> <<>>]
NoResult   == JsonOther("none")

\* ------------------------------------------------------------ environment

BoundedSeq(S, n) == UNION {[1..k -> S] : k \in 0..n}

Q1 == <<"https://", "host", "/q1">>
Q2 == <<"https://", "host", "/q2">>

Secrets == {"s3cret", "wrong"}
Requests == [email : {"a@example.com"}, secret : Secrets, url : {<<>>, Q1}]

\* What the language-model client does when called: raise, or reply.
LmReplies ==
    {[raises |-> TRUE, text |-> <<>>]} \cup
    {[raises |-> FALSE, text |-> t] :
        t \in {<<"none">>, <<" ", "https://", "lm.example", " ">>,
               <<"backquote", "10", "backquote">>, <<"yes">>}}

\* What the CSV loader does when called: raise, or return a frame.
Column(vals)   == [numeric |-> TRUE, vals |-> vals]
TextColumn     == [numeric |-> FALSE, vals |-> <<>>]
ScenarioFrame  == <<Column(<<2, 30, 44, 6>>)>>
CsvValues      == {-4, 20, 21, 30, 44}
Frames ==
    {ScenarioFrame, <<TextColumn>>} \cup
    {<<Column(v)>> : v \in BoundedSeq(CsvValues, MaxRows) \ {<<>>}} \cup
    {<<TextColumn, Column(v), Column(<<44>>)>> : v \in {<<21, 30>>}}
CsvLoads(frames) ==
    {[raises |-> TRUE, df |-> <<>>]} \cup {[raises |-> FALSE, df |-> f] : f \in frames}

\* Pages the quiz server serves to the driver.
Pages ==
    {[text |-> <<"POST", " ", "to", " ", "https://", "host", "/submit">>, html |-> <<>>],
     [text |-> <<"Scrape", " ", "/secret.html", " ", "https://", "host", "/submit", "?id=1">>,
      html |-> <<>>],
     [text |-> <<"Cutoff", ":", " ", "10">>,
      html |-> <<"href=", "\"", "data", ".csv", "\"">>],
     [text |-> <<"abc">>, html |-> <<>>]}

ScrapedPages == {<<"secret code is", " ", "48213">>, <<" ", "abc", " ">>}

\* JSON bodies the submission endpoint answers with.
JsonReplies ==
    {JsonDict(c, r, FALSE, <<>>) : c \in {"absent", "true", "false"}, r \in {"absent", "text"}}
    \cup {JsonDict(c, "absent", TRUE, u) : c \in {"absent", "true", "false"}, u \in {<<>>, Q1, Q2}}
    \cup {JsonOther("falsy"), JsonOther("other")}

\* Pages for solve_question alone: with or without a Scrape instruction, a
\* link to a CSV file and a stated cutoff.
CutoffNumbers == {"0", "10", "15"}
CutoffParts ==
    {<<>>} \cup
    UNION {{<<"cutoff", " ", "of", " ", n>>, <<"Cutoff", ":", " ", n>>, <<"cutoff", " ", n>>,
            <<"cutoff", ":", n>>} : n \in CutoffNumbers}
CsvTextParts == {<<>>, <<" ", "https://", "host", "/data", ".csv">>,
                 <<" ", "(", "data", ".csv", ")">>}
ResolverHtmls == {<<>>, <<"href=", "\"", "data", ".csv", "\"">>,
                  <<"href=", "'", "/data", ".csv", "'", " ", "Cutoff", ":", " ", "15">>}
ScrapeParts == {<<"Scrape", " ", "/secret.html", " ">>, <<"Scrape", " ", "secret.html">>,
                <<"Scrape", " ", "https://", "host", "/data", " ">>}
ResolverPages ==
    {[text |-> c \o l, html |-> h] : c \in CutoffParts, l \in CsvTextParts, h \in ResolverHtmls}
    \cup {[text |-> p \o c, html |-> h] :
            p \in ScrapeParts, c \in {<<"Cutoff", ":", " ", "10">>},
            h \in {<<>>, <<"href=", "\"", "data", ".csv", "\"">>}}

\* Scraped texts: no two runs of digits stand next to each other (they
\* would be one run).
ScrapedLex == {"secret code is", " ", "48213", "123", "abc"}
ScrapedTexts ==
    {p \o b : p \in {<<>>, <<"777777", " ">>},
              b \in {t \in BoundedSeq(ScrapedLex, MaxLen) :
                        \A i \in 1..(Len(t) - 1) : ~(t[i] \in Digits /\ t[i + 1] \in Digits)}}

\* What the program meets in each specification: the quiz pages, the pages
\* to scrape, the frames the CSV loader returns and what the language
\* model does.
Surroundings(s) ==
    IF s = "service" THEN
        [pages |-> Pages, scraped |-> ScrapedPages, frames |-> {ScenarioFrame, <<TextColumn>>},
         lm |-> {l \in LmReplies : l.text \in {<<>>, <<"backquote", "10", "backquote">>}}]
    ELSE IF s = "resolver" THEN
        [pages |-> {}, scraped |-> ScrapedTexts, frames |-> Frames, lm |-> LmReplies]
    ELSE
        [pages |-> {}, scraped |-> {}, frames |-> {}, lm |-> LmReplies]

\* ------------------------------------------------------------------ actions

ResetStep ==
    /\ page_text' = <<>> /\ page_html' = <<>> /\ analysis' = NoAnalysis
    /\ solve' = NoSolve /\ answer' = NoAnswer /\ result' = NoResult
    /\ attempt' = 0 /\ delays' = 0 /\ tries' = 0

\* The task scheduled before the secret is looked at.
solve_quiz_unchecked(request) ==
    /\ Len(responses) < MaxRequests
    /\ tasks' = Append(tasks, [email |-> request.email, secret |-> request.secret,
                               url |-> request.url])
    /\ responses' = Append(responses,
                           IF request.secret /= MY_SECRET
                           THEN [request |-> request, status |-> 403, body |-> "Invalid secret"]
                           ELSE [request |-> request, status |-> 200, body |-> "accepted"])
    /\ UNCHANGED <<configVars, started, chainVars, stepVars>>

\* POST /solve (main.py:37-47)
solve_quiz(request) ==
    /\ Len(responses) < MaxRequests
    /\ IF request.secret /= MY_SECRET
       THEN /\ responses' = Append(responses, [request |-> request, status |-> 403,
                                               body |-> "Invalid secret"])
            /\ tasks' = tasks
       ELSE /\ tasks' = Append(tasks, [email |-> request.email, secret |-> request.secret,
                                       url |-> request.url])
            /\ responses' = Append(responses, [request |-> request, status |-> 200,
                                               body |-> "accepted"])
    /\ UNCHANGED <<configVars, started, chainVars, stepVars>>

\* The background task starts: solve_quiz_chain(email, secret, start_url)
\* up to its loop (main.py:50-57).  Chains share no state; the model runs
\* them one after another.
StartChain ==
    /\ pc \in {"idle", "done"}
    /\ tasks /= <<>>
    /\ task' = Head(tasks)
    /\ tasks' = Tail(tasks)
    /\ started' = Append(started, Head(tasks))
    /\ current_url' = Head(tasks).url
    /\ quiz_count' = 0
    /\ pc' = "loop"
    /\ outcome' = "running"
    /\ lacked' = FALSE
    /\ single_calls' = 0 /\ submit_calls' = 0
    /\ ResetStep
    /\ UNCHANGED <<configVars, responses>>

\* main.py:59-64: the loop test, and the call of solve_single_quiz
LoopTest ==
    /\ pc = "loop"
    /\ IF LoopContinues(current_url, quiz_count)
       THEN /\ quiz_count' = quiz_count + 1
            /\ single_calls' = single_calls + 1
            /\ pc' = "fetch"
            /\ outcome' = outcome
       ELSE /\ pc' = "done"
            /\ outcome' = IF current_url = <<>> THEN "no url" ELSE "step cap"
            /\ UNCHANGED <<quiz_count, single_calls>>
    /\ ResetStep
    /\ UNCHANGED <<entryVars, task, current_url, lacked, submit_calls>>

\* attempt < retries: one attempt more than retries.
RetriesLeftOffByOne(n, retries) == n < retries

\* main.py:126-145: whether a failed attempt is followed by another
RetriesLeft(n, retries) == n < retries - 1

\* A fetch attempt succeeds (main.py:129-139): of the quiz page
\* (main.py:94), or of the page to scrape (main.py:223-236), whose answer
\* is then submitted (main.py:114).
FetchSucceeds ==
    /\ pc \in {"fetch", "scrape"}
    /\ IF pc = "fetch"
       THEN /\ \E page \in Surroundings(site).pages :
                 page_text' = page.text /\ page_html' = page.html
            /\ pc' = "analyze"
            /\ tries' = tries + 1
            /\ UNCHANGED <<solve, answer, submit_calls, attempt, delays>>
       ELSE /\ \E scraped \in Surroundings(site).scraped :
                 /\ solve' = [solve EXCEPT !.scraped_text = scraped]
                 /\ answer' = ScrapeAnswer(scraped)
            /\ pc' = "submit"
            /\ submit_calls' = submit_calls + 1
            /\ attempt' = 0 /\ delays' = 0 /\ tries' = 0
            /\ UNCHANGED <<page_text, page_html>>
    /\ UNCHANGED <<entryVars, task, current_url, quiz_count, outcome, lacked, single_calls,
                   analysis, result>>

\* A fetch attempt fails and another follows after the delay (main.py:140-143).
FetchRetries ==
    /\ pc \in {"fetch", "scrape"}
    /\ RetriesLeft(attempt, fetch_retries)
    /\ attempt' = attempt + 1
    /\ delays' = delays + 1
    /\ tries' = tries + 1
    /\ UNCHANGED <<entryVars, chainVars, page_text, page_html, analysis, solve, answer, result>>

\* The last fetch attempt fails: the failure is re-raised (main.py:145) and
\* caught by the driver (main.py:83-85).
FetchRaises ==
    /\ pc \in {"fetch", "scrape"}
    /\ ~RetriesLeft(attempt, fetch_retries)
    /\ tries' = tries + 1
    /\ pc' = "done"
    /\ outcome' = "error"
    /\ page_text' = <<>> /\ page_html' = <<>> /\ analysis' = NoAnalysis
    /\ solve' = NoSolve /\ answer' = NoAnswer
    /\ UNCHANGED <<entryVars, task, current_url, quiz_count, lacked, single_calls, submit_calls,
                   result, attempt, delays>>

\* main.py:99-104
AnalyzeStep ==
    /\ pc = "analyze"
    /\ \E lm \in Surroundings(site).lm : analysis' = analyze_quiz_page(page_text, lm)
    /\ pc' = "solve"
    /\ UNCHANGED <<entryVars, task, current_url, quiz_count, outcome, lacked, single_calls,
                   submit_calls, page_text, page_html, solve, answer, result, attempt, delays,
                   tries>>

\* What the CSV loader does if it is called, and what the language model
\* does if it is.
CsvChoices(plan) ==
    IF plan.csv_loaded = <<>> THEN {[raises |-> TRUE, df |-> <<>>]}
    ELSE CsvLoads(Surroundings(site).frames)
LmChoices(plan, csv) ==
    IF TabularReturns(plan, csv) THEN {NoReply} ELSE Surroundings(site).lm

\* main.py:109-114, 212-331: solve_question up to its scrape fetch, or to
\* its answer, which is then submitted.
SolveStep ==
    /\ pc = "solve"
    /\ LET path == ScrapePath(analysis.question)
       IN  IF path /= <<>>
           THEN /\ solve' = [NoSolve EXCEPT !.branch = "scrape",
                                            !.scrape_url = urljoin(current_url, path)]
                /\ pc' = "scrape"
                /\ UNCHANGED <<answer, submit_calls>>
           ELSE /\ LET plan == CsvPlan(page_text, page_html, current_url)
                   IN  \E csv \in CsvChoices(plan) : \E lm \in LmChoices(plan, csv) :
                         LET r == ResolveWithoutScrape(plan, csv, lm)
                         IN  /\ solve' = [NoSolve EXCEPT !.branch = r.branch,
                                                         !.csv_loaded = r.csv_loaded,
                                                         !.df = r.df, !.cutoff = r.cutoff,
                                                         !.lm_calls = r.lm_calls]
                             /\ answer' = r.answer
                /\ pc' = "submit"
                /\ submit_calls' = submit_calls + 1
    /\ attempt' = 0 /\ delays' = 0 /\ tries' = 0
    /\ UNCHANGED <<entryVars, task, current_url, quiz_count, outcome, lacked,
                   single_calls, page_text, page_html, analysis, result>>

\* solve_single_quiz returns (main.py:123): its locals are gone.
ReturnResult(r) ==
    /\ result' = r
    /\ lacked' = (lacked \/ ~(r.kind = "dict" /\ r.has_url /\ r.url /= <<>>))
    /\ pc' = "check"
    /\ page_text' = <<>> /\ page_html' = <<>> /\ analysis' = NoAnalysis
    /\ solve' = NoSolve /\ answer' = NoAnswer

\* A POST attempt is answered 200 with a JSON body (main.py:353-356).
PostAnswered ==
    /\ pc = "submit"
    /\ \E v \in JsonReplies : ReturnResult(v)
    /\ tries' = tries + 1
    /\ UNCHANGED <<entryVars, task, current_url, quiz_count, outcome, single_calls,
                   submit_calls, attempt, delays>>

\* A POST attempt is answered with another status (main.py:357-358).
PostRefused ==
    /\ pc = "submit"
    /\ ReturnResult(HttpFailure)
    /\ tries' = tries + 1
    /\ UNCHANGED <<entryVars, task, current_url, quiz_count, outcome, single_calls,
                   submit_calls, attempt, delays>>

\* A POST attempt raises (no connection, a timeout, a body that is not
\* JSON) and another follows after the delay (main.py:359-362).
PostRetries ==
    /\ pc = "submit"
    /\ RetriesLeft(attempt, submit_retries)
    /\ attempt' = attempt + 1
    /\ delays' = delays + 1
    /\ tries' = tries + 1
    /\ UNCHANGED <<entryVars, chainVars, page_text, page_html, analysis, solve, answer, result>>

\* The last POST attempt raises (main.py:363-364).
PostGivesUp ==
    /\ pc = "submit"
    /\ ~RetriesLeft(attempt, submit_retries)
    /\ tries' = tries + 1
    /\ ReturnResult(ExhaustedFailure)
    /\ UNCHANGED <<entryVars, task, current_url, quiz_count, outcome, single_calls,
                   submit_calls, attempt, delays>>

\* main.py:66-81: the driver looks at the result of the step.
CheckResult ==
    /\ pc = "check"
    /\ IF DriverVerdict(result) = "next"
       THEN /\ current_url' = NextUrl(result)
            /\ pc' = "loop"
            /\ outcome' = outcome
       ELSE /\ pc' = "done"
            /\ outcome' = DriverVerdict(result)
            /\ current_url' = current_url
    /\ UNCHANGED <<entryVars, task, quiz_count, lacked, single_calls, submit_calls, stepVars>>

\* ----------------------------------------------------------- specifications

Idle ==
    /\ responses = <<>> /\ tasks = <<>> /\ started = <<>>
    /\ task = NoTask /\ current_url = <<>> /\ quiz_count = 0
    /\ outcome = "none" /\ lacked = FALSE /\ single_calls = 0 /\ submit_calls = 0
    /\ page_text = <<>> /\ page_html = <<>> /\ analysis = NoAnalysis
    /\ solve = NoSolve /\ answer = NoAnswer /\ result = NoResult
    /\ attempt = 0 /\ delays = 0 /\ tries = 0

\* The service after startup: the secret is configured or not (os.getenv
\* gives None, which no request's secret equals).
Init ==
    /\ MY_SECRET \in {"s3cret", "None"}
    /\ site = "service"
    /\ pc = "idle"
    /\ Idle

Next ==
    \/ \E request \in Requests : solve_quiz(request)
    \/ StartChain
    \/ LoopTest
    \/ FetchSucceeds
    \/ FetchRetries
    \/ FetchRaises
    \/ AnalyzeStep
    \/ SolveStep
    \/ PostAnswered
    \/ PostRefused
    \/ PostRetries
    \/ PostGivesUp
    \/ CheckResult

Spec == Init /\ [][Next]_vars

\* analyze_quiz_page alone: one call on any page text made of an optional
\* POST instruction and up to MaxLen further lexemes.
AnalyzerBodyLex == {"POST", " ", "https://", "http://", "host", "/submit", "?id=1"}
AnalyzerPrefixes == {<<>>, <<"POST", " ", "to", " ">>, <<"POST", " ", "JSON", " ", "to", " ">>}
AnalyzerTexts == {p \o b : p \in AnalyzerPrefixes, b \in BoundedSeq(AnalyzerBodyLex, MaxLen)}

InitAnalyze ==
    /\ MY_SECRET = "s3cret"
    /\ site = "analyzer"
    /\ pc = "analyze"
    /\ responses = <<>> /\ tasks = <<>> /\ started = <<>>
    /\ task = NoTask /\ current_url = Q1 /\ quiz_count = 1
    /\ outcome = "running" /\ lacked = FALSE /\ single_calls = 1 /\ submit_calls = 0
    /\ page_text \in AnalyzerTexts
    /\ page_html = <<>> /\ analysis = NoAnalysis
    /\ solve = NoSolve /\ answer = NoAnswer /\ result = NoResult
    /\ attempt = 0 /\ delays = 0 /\ tries = 1

NextAnalyze == AnalyzeStep

SpecAnalyze == InitAnalyze /\ [][NextAnalyze]_vars

\* solve_question alone: one call.  The question is the page text's
\* prefix, as solve_single_quiz passes it (main.py:110,161).
InitSolve ==
    /\ MY_SECRET = "s3cret"
    /\ site = "resolver"
    /\ pc = "solve"
    /\ responses = <<>> /\ tasks = <<>> /\ started = <<>>
    /\ task = NoTask /\ current_url = Q1 /\ quiz_count = 1
    /\ outcome = "running" /\ lacked = FALSE /\ single_calls = 1 /\ submit_calls = 0
    /\ \E page \in ResolverPages :
         /\ page_text = page.text /\ page_html = page.html
         /\ analysis = [NoAnalysis EXCEPT !.submit_url = DefaultSubmitUrl,
                                          !.question = Take(page.text, QuestionChars)]
    /\ solve = NoSolve /\ answer = NoAnswer /\ result = NoResult
    /\ attempt = 0 /\ delays = 0 /\ tries = 1

NextSolve ==
    \/ SolveStep
    \/ FetchSucceeds
    \/ FetchRetries
    \/ FetchRaises

SpecSolve == InitSolve /\ [][NextSolve]_vars

\* ------------------------------------------------------------------ claims

\* text[i..j] is a well-formed URL with a /submit path: a scheme, a host,
\* the /submit path and whatever query string or further path follows,
\* between whitespace or the ends of the text.
SubmitUrlAt(text, i, j) ==
    /\ i + 2 <= j /\ j <= Len(text)
    /\ text[i] \in {"https://", "http://"} /\ text[i + 1] = "host" /\ text[i + 2] = "/submit"
    /\ \A k \in (i + 3)..j : text[k] \in {"/submit", "?id=1"}
    /\ (i = 1 \/ text[i - 1] = " ")
    /\ (j = Len(text) \/ text[j + 1] = " ")

SubmitUrlsIn(text) ==
    {SubSeq(text, p[1], p[2]) :
        p \in {q \in (1..Len(text)) \X (1..Len(text)) : SubmitUrlAt(text, q[1], q[2])}}

\* C4: whenever the page text contains a well-formed URL with a /submit
\* path, whatever its scheme, query string or trailing path,
\* analyze_quiz_page returns exactly that URL and does not invoke the
\* language model.
C4_ExactSubmitUrl ==
    (pc = "solve" /\ SubmitUrlsIn(page_text) /= {}) =>
        /\ analysis.submit_url \in SubmitUrlsIn(page_text)
        /\ analysis.lm_calls = 0

C4_Witness ==
    /\ pc = "solve"
    /\ SubmitUrlsIn(page_text) = {<<"https://", "host", "/submit", "?id=1">>}
    /\ analysis.submit_url = <<"https://", "host", "/submit">>
    /\ analysis.lm_calls = 0

\* An https URL stands in text: the scheme and at least one more character.
HasHttpsUrl(text) ==
    \E i \in 1..(Len(text) - 1) : text[i] = "https://" /\ text[i + 1] \notin {" ", "<", ">", "\""}

\* Nothing in the page text or in the model's reply lets a submission URL
\* be found: no /submit path, no https URL, and the model raised or
\* replied without a URL.
NothingDiscoverable ==
    /\ \A i \in 1..Len(page_text) : page_text[i] /= "/submit"
    /\ ~HasHttpsUrl(page_text)
    /\ analysis.lm_reply.raises \/ ~HasHttpsUrl(analysis.lm_reply.text)

\* C5: analyze_quiz_page never fails: whatever the page text and whatever
\* the language model does (any reply, or an error), it returns a
\* non-empty submit_url, and the hardcoded default endpoint when no
\* submission URL is discoverable.
C5_AlwaysSubmitUrl ==
    /\ pc \in {"analyze", "solve"} /\ outcome = "running"
    /\ pc = "solve" =>
        /\ analysis.submit_url /= <<>>
        /\ NothingDiscoverable =>
               analysis.submit_url = <<"https://", "tds-llm-analysis.s-anand.net", "/submit">>

C5_Witness ==
    /\ pc = "solve" /\ NothingDiscoverable /\ analysis.lm_reply.raises
    /\ Len(page_text) >= 2
    /\ analysis.submit_url = <<"https://", "tds-llm-analysis.s-anand.net", "/submit">>

\* The values of the first numeric column of a frame.
NumericColumn(df) ==
    df[CHOOSE i \in 1..Len(df) : df[i].numeric /\ \A j \in 1..(i - 1) : ~df[j].numeric].vals

HasNumericColumn(df) == \E i \in 1..Len(df) : df[i].numeric

RECURSIVE SumAbove(_, _, _)
\* The exact sum, in halves, of the values of vals from index i on that
\* are strictly greater than the cutoff c.
SumAbove(vals, c, i) ==
    IF i > Len(vals) THEN 0
    ELSE (IF vals[i] > 2 * c THEN vals[i] ELSE 0) + SumAbove(vals, c, i + 1)

\* C6: on the tabular branch solve_question returns the exact integer sum
\* of the values of the first numeric column that are strictly greater
\* than the cutoff, and for the same CSV a lower cutoff never gives a
\* smaller sum.
C6_ExactSum ==
    (pc = "submit" /\ solve.branch = "tabular") =>
        LET vals == NumericColumn(solve.df)
        IN  /\ answer.kind = "int"
            /\ 2 * answer.num = SumAbove(vals, solve.cutoff, 1)
            /\ \A c \in 0..solve.cutoff :
                   IntOf(FilteredSum(vals, c)) >= answer.num

C6_Witness ==
    /\ pc = "submit" /\ solve.branch = "tabular" /\ solve.cutoff = 10
    /\ NumericColumn(solve.df) = <<21, 30>>
    /\ answer = [kind |-> "int", num |-> 25, text |-> <<>>]

\* The page states its threshold as "cutoff of N" at position i.
CutoffOfAt(text, i) ==
    /\ i + 4 <= Len(text)
    /\ SubSeq(text, i, i + 3) = <<"cutoff", " ", "of", " ">>
    /\ text[i + 4] \in {"0", "10", "15"}

\* The page states its threshold as "cutoff" or "Cutoff", then colons or
\* whitespace, then N at position j.
CutoffAt(text, i, j) ==
    /\ i + 1 < j /\ j <= Len(text)
    /\ text[i] \in {"cutoff", "Cutoff"}
    /\ \A k \in (i + 1)..(j - 1) : text[k] \in {":", " "}
    /\ text[j] \in {"0", "10", "15"}

\* The number of the first such statement, -1 when there is none.
FirstCutoff(text) ==
    LET S == {q \in (1..Len(text)) \X (1..Len(text)) : CutoffAt(text, q[1], q[2])}
    IN  IF S = {} THEN -1
        ELSE LET p == CHOOSE q \in S : \A r \in S : q[1] <= r[1]
             IN  ParseInt(text[p[2]])

\* Text and markup as the resolver reads them, one after the other.
PageContent == page_text \o <<" ">> \o page_html

InstructedPath(question) ==
    LET stops == {k \in 3..Len(question) : question[k] = " "}
        last  == IF stops = {} THEN Len(question)
                 ELSE (CHOOSE k \in stops : \A l \in stops : k <= l) - 1
    IN  SubSeq(question, 3, last)

\* That path resolved against the page https://host/q1.
ResolvedPath(path) ==
    IF path[1] \in {"https://", "http://"} THEN path
    ELSE IF path[1] = "/secret.html" THEN <<"https://", "host">> \o path
    ELSE <<"https://", "host", "/">> \o path

\* text[i] is the label "secret code is" and text[j] the number after it.
LabelledAt(text, i, j) ==
    /\ i + 1 < j /\ j <= Len(text)
    /\ text[i] = "secret code is"
    /\ \A k \in (i + 1)..(j - 1) : text[k] = " "
    /\ text[j] \in {"48213", "123", "777777"}

\* text[i] is a run of five or more digits standing alone.
StandaloneAt(text, i) ==
    /\ text[i] \in {"48213", "777777"}
    /\ (i = 1 \/ text[i - 1] = " ")
    /\ (i = Len(text) \/ text[i + 1] = " ")

\* C8: for a question with a Scrape instruction, solve_question fetches the
\* path resolved against the quiz page's URL; when the scraped content
\* holds a labelled "secret code is N" the answer is the N of the first
\* such phrase, whatever standalone runs of five or more digits stand
\* elsewhere; with no labelled phrase it is the first standalone run; and
\* neither the CSV loader nor the language model is invoked in that call.
C8_ScrapeBranch ==
    (solve.branch = "scrape" /\ pc \in {"scrape", "submit"}) =>
        /\ analysis.question[1] = "Scrape"
        /\ solve.scrape_url = ResolvedPath(InstructedPath(analysis.question))
        /\ solve.csv_loaded = <<>> /\ solve.df = <<>> /\ solve.lm_calls = 0
        /\ pc = "submit" =>
            LET t == solve.scraped_text
                L == {q \in (1..Len(t)) \X (1..Len(t)) : LabelledAt(t, q[1], q[2])}
                R == {i \in 1..Len(t) : StandaloneAt(t, i)}
            IN  /\ answer.kind = "str"
                /\ L /= {} =>
                     \E q \in L : /\ \A r \in L : q[1] <= r[1]
                                  /\ answer.text = <<t[q[2]]>>
                /\ (L = {} /\ R /= {}) =>
                     \E i \in R : (\A k \in R : i <= k) /\ answer.text = <<t[i]>>

C8_Witness ==
    /\ pc = "submit" /\ solve.branch = "scrape"
    /\ solve.scrape_url = <<"https://", "host", "/secret.html">>
    /\ solve.scraped_text = <<"777777", " ", "secret code is", " ", "123">>
    /\ answer.text = <<"123">>

\* C1: one run of solve_quiz_chain performs at most 10 quiz steps whatever
\* the start URL and the submission responses: solve_single_quiz is called
\* at most 10 times, at most 10 answers are submitted, a step is under way
\* only with a count of 1 to 10, and the loop is left for good once the
\* count has reached 10.
C1_AtMostTenSteps ==
    /\ quiz_count <= 10 /\ single_calls <= 10 /\ submit_calls <= 10
    /\ single_calls = quiz_count /\ submit_calls <= single_calls
    /\ pc \in {"fetch", "analyze", "solve", "scrape", "submit", "check"} => quiz_count >= 1
    /\ outcome = "step cap" => (quiz_count = 10 /\ pc = "done")

C1_Witness ==
    /\ pc = "done" /\ outcome = "step cap"
    /\ quiz_count = 10 /\ single_calls = 10 /\ submit_calls = 10

\* C2: once a submission result of the chain has lacked a next-hop url
\* (the key absent or its value empty), the driver only looks at that
\* result and stops: it is never again at the loop test, fetching,
\* analysing, resolving or submitting in that chain.
C2_HaltsWithoutNextUrl ==
    lacked => (pc \in {"check", "done"} /\ (pc = "done" => outcome \in {"complete", "invalid"}))

C2_Witness ==
    /\ lacked /\ pc = "done" /\ quiz_count = 2 /\ submit_calls = 2
    /\ result.kind = "dict" /\ result.has_url /\ result.url = <<>>

RECURSIVE AcceptedTasks(_)
\* The requests among rs whose secret is the configured one, in order.
AcceptedTasks(rs) ==
    IF rs = <<>> THEN <<>>
    ELSE (IF Head(rs).request.secret = MY_SECRET THEN <<Head(rs).request>> ELSE <<>>)
         \o AcceptedTasks(Tail(rs))

\* C3: every POST /solve is answered 200 "accepted" when its secret equals
\* the configured one and 403 otherwise, and the chains scheduled or
\* started are exactly one per request with the right secret, in order,
\* with that request's email, secret and url: none for a request with a
\* wrong secret.
C3_ScheduledIffSecretMatches ==
    /\ \A i \in 1..Len(responses) :
          IF responses[i].request.secret = MY_SECRET
          THEN responses[i].status = 200 /\ responses[i].body = "accepted"
          ELSE responses[i].status = 403
    /\ started \o tasks = AcceptedTasks(responses)

C3_Witness ==
    /\ Len(responses) = 2
    /\ responses[1].status = 403 /\ responses[2].status = 200
    /\ tasks = <<responses[2].request>> /\ started = <<>> /\ pc = "idle"

\* C9: when the chain has ended on a submission result, a result that is
\* a JSON object without a next-hop url ends it as "chain complete", and
\* it ends as "invalid response" only on a result that is not a JSON
\* object.
C9_TerminalClass ==
    (pc = "done" /\ result.kind /= "none") =>
        /\ (result.kind = "dict" /\ ~(result.has_url /\ result.url /= <<>>)) =>
               outcome = "complete"
        /\ outcome = "invalid" => result.kind /= "dict"

C9_Witness ==
    /\ pc = "done" /\ outcome = "invalid"
    /\ result = [kind |-> "dict", correct |-> "absent", reason |-> "absent",
                 has_url |-> FALSE, url |-> <<>>]

\* C10: a page fetch and a submission make at most 3 attempts each, one
\* delay after every failed attempt but the last; a fetch whose 3 attempts
\* failed ends the chain with an error and without a submission for that
\* step, a submission whose 3 attempts failed returns the structured
\* failure result, on which the driver stops.
C10_BoundedRetry ==
    /\ tries <= 3 /\ delays <= 2 /\ attempt <= 2
    /\ pc \in {"fetch", "scrape", "submit"} => (delays = tries /\ attempt = tries)
    /\ pc \in {"analyze", "solve", "check"} => (tries >= 1 /\ delays = tries - 1)
    /\ outcome = "error" =>
          /\ pc = "done" /\ tries = 3 /\ delays = 2
          /\ result.kind = "none" /\ submit_calls = single_calls - 1
    /\ result = [kind |-> "dict", correct |-> "false", reason |-> "error text",
                 has_url |-> FALSE, url |-> <<>>] =>
          /\ tries = 3 /\ delays = 2
          /\ pc \in {"check", "done"}
          /\ pc = "done" => outcome = "complete"

C10_Witness ==
    /\ pc = "done" /\ outcome = "complete" /\ tries = 3 /\ delays = 2
    /\ result = [kind |-> "dict", correct |-> "false", reason |-> "error text",
                 has_url |-> FALSE, url |-> <<>>]
    /\ quiz_count = 2

\* The step's result is a JSON object carrying a non-empty next-hop url.
CarriesNextUrl(r) == r.kind = "dict" /\ r.has_url /\ r.url /= <<>>

\* C11: within a chain, in every move of the driver (requests arriving
\* meanwhile apart): when the driver looks at a result that is a JSON
\* object with a non-empty next-hop url, it stays running and makes that
\* url its current one, whatever the result's correct field and whether
\* or not the url is the one just visited; with a current url and fewer
\* than 10 steps run the loop starts the next step on exactly that url;
\* the step count grows by exactly one when a step starts and changes at
\* no other time.
C11_FollowsNextUrl ==
    [][pc \notin {"idle", "done"} =>
        /\ (pc = "check" /\ CarriesNextUrl(result)) =>
               /\ pc' = "loop" /\ outcome' = "running"
               /\ current_url' = result.url
               /\ quiz_count' = quiz_count
        /\ (pc = "loop" /\ current_url /= <<>> /\ quiz_count < 10) =>
               /\ pc' = "fetch" /\ outcome' = "running"
               /\ current_url' = current_url
               /\ quiz_count' = quiz_count + 1
        /\ quiz_count' \in {quiz_count, quiz_count + 1}
        /\ quiz_count' = quiz_count + 1 <=> (pc = "loop" /\ pc' = "fetch")
        /\ pc' = "fetch" => current_url' = current_url]_<<chainVars, stepVars>>

C11_Witness ==
    /\ pc = "loop" /\ outcome = "running" /\ quiz_count = 1
    /\ result.kind = "dict" /\ result.correct = "false"
    /\ result.url = <<"https://", "host", "/q1">>
    /\ task.url = result.url /\ current_url = result.url

====
